---- MODULE Spec2Model ----
(***************************************************************************)
(* A model of nebelbot's core: the Bot wrapper (src/src/core/bot.py) that  *)
(* registers handler bindings with composed predicates, the conversation   *)
(* store of Chat objects (src/src/core/chat.py), the plugin registry       *)
(* (src/src/core/plugin.py), the boot / polling / shutdown life cycle and  *)
(* the static helpers get_name and the address matcher.                    *)
(***************************************************************************)
EXTENDS Integers, Sequences, FiniteSets, TLC

VARIABLES
    phase,              \* "init" (nothing constructed), "failed" (the constructor raised),
                        \* "booted" (constructed), "polling" (inside start), "stopped"
    started_at,         \* Bot._started_at
    default_only_roles, \* Bot._default_only_roles (from the config)
    handlers,           \* the bindings handed to TeleBot.message_handler, in list order
    chats,              \* Bot._chats: chat id -> Chat
    saved,              \* what start() wrote to the chats asset, once polling returned
    Plugin_plugins,     \* Plugin.plugins: the process-wide registry, name -> class
    config_plugins,     \* config.plugins: the plugin names of the configuration, in order
    plugins,            \* Bot._plugins: the instantiated plugins, in order
    finalized,          \* the plugins whose finalize() start() has invoked, in order
    error,              \* the exception that left the last call, or "none"
    workers,            \* the handler executions in flight on TeleBot's worker threads
    call                \* the application of a static helper: its arguments and result

core_vars == <<phase, started_at, default_only_roles, handlers, chats, saved>>

plugin_vars == <<Plugin_plugins, config_plugins, plugins, finalized, error>>

vars == <<core_vars, plugin_vars, workers, call>>

----------------------------------------------------------------------------
(* Configuration and the small input sets.                                 *)

MasterId == 1
MaxMessageLength == 2
MaxHandlers == 2

Users == {MasterId, 2}
\* One chat id: a predicate, a handler and a store operation each read and
\* write the entry of one chat only; the chat is unknown when the store is empty.
ChatIds == {1}
Names == {"n1", "n2"}
Roles == {"administrator", "member"}
RoleSets == {{}, {"administrator"}}
DefaultRoleSets == {{}, {"member"}}
MaxDate == 1
StartTimes == {1}
Dates == 0..MaxDate
Lengths == (MaxMessageLength - 1)..(MaxMessageLength + 1)

\* An inbound message, with what the platform answers for its sender:
\* role is get_chat_member(chat, sender).status, addr tells whether the
\* text matches the address pattern of the registered phrase.
Messages ==
    [sender : Users, chat : ChatIds, date : Dates, len : Lengths,
     role : Roles, addr : BOOLEAN]

----------------------------------------------------------------------------
(* Chat (chat.py).  A member container is a Python dict or, when a         *)
(* serialized record lacks "members", the empty tuple that                 *)
(* from_dict's default supplies.                                           *)

MemberMaps == UNION {[d -> Names] : d \in SUBSET Users}

Dict(f) == [type |-> "dict", items |-> f]

EmptyDict == Dict(<<>>)

EmptyTuple == [type |-> "tuple", items |-> <<>>]

NewChat(active, members) == [active |-> active, members |-> members]

contains(chat, user_id) == user_id \in DOMAIN chat.members.items

activate(chat) == [chat EXCEPT !.active = TRUE]

deactivate(chat) == [chat EXCEPT !.active = FALSE]

\* Chat.add_member on a dict container; on the tuple the item assignment raises.
add_member(chat, user_id, name) ==
    [chat EXCEPT !.members =
        Dict([u \in DOMAIN chat.members.items \cup {user_id} |->
                IF u = user_id THEN name ELSE chat.members.items[u]])]

can_add_member(chat) == chat.members.type = "dict"

\* A serialized record: a mapping that may lack either key.
RawRecords ==
    [has_active : BOOLEAN, active : BOOLEAN,
     has_members : BOOLEAN, members : {Dict(f) : f \in MemberMaps} \cup {EmptyTuple}]

from_dict(data) ==
    NewChat(IF data.has_active THEN data.active ELSE FALSE,
            IF data.has_members THEN data.members ELSE EmptyTuple)

\* A variant that leaves the active flag out of the record.
to_dict_without_active(chat) ==
    [has_active |-> FALSE, active |-> FALSE,
     has_members |-> TRUE, members |-> chat.members]

to_dict(chat) ==
    [has_active |-> TRUE, active |-> chat.active,
     has_members |-> TRUE, members |-> chat.members]

LoadChats(raw) == [c \in DOMAIN raw |-> from_dict(raw[c])]

DumpChats(store) == [c \in DOMAIN store |-> to_dict(store[c])]

----------------------------------------------------------------------------
(* Bot: the conversation store operations (bot.py).                        *)

add_chat(store, chat_id) ==
    [c \in DOMAIN store \cup {chat_id} |->
        IF c = chat_id THEN NewChat(TRUE, EmptyDict) ELSE store[c]]

remove_chat(store, chat_id) == [c \in DOMAIN store \ {chat_id} |-> store[c]]

\* What a caller holding the bot (a plugin constructor, a reply function)
\* may do to the store: nothing, or one of the four store operations.
NoEffect == [op |-> "none", chat |-> 0]

Effects ==
    {NoEffect} \cup
    [op : {"add_chat", "remove_chat", "activate", "deactivate"}, chat : ChatIds]

\* remove_chat, activate and deactivate raise KeyError on an unknown chat.
EffectAllowed(store, eff) ==
    eff.op \in {"remove_chat", "activate", "deactivate"} => eff.chat \in DOMAIN store

ApplyEffect(store, eff) ==
    CASE eff.op = "none" -> store
      [] eff.op = "add_chat" -> add_chat(store, eff.chat)
      [] eff.op = "remove_chat" -> remove_chat(store, eff.chat)
      [] eff.op = "activate" ->
            [store EXCEPT ![eff.chat] = activate(store[eff.chat])]
      [] eff.op = "deactivate" ->
            [store EXCEPT ![eff.chat] = deactivate(store[eff.chat])]

----------------------------------------------------------------------------
(* Bot: predicates (bot.py).                                               *)

\* A variant without the master's bypass.
from_user_predicate_no_master(only_roles, m, store) ==
    /\ m.chat \in DOMAIN store
    /\ store[m.chat].active
    /\ m.role \in only_roles

\* A variant that forgets the active flag of a known chat.
from_user_predicate_no_active(only_roles, m, store) ==
    \/ m.sender = MasterId
    \/ m.chat \in DOMAIN store /\ m.role \in only_roles

\* make_from_user_predicate(only_roles) applied to a message.
make_from_user_predicate(only_roles, m, store) ==
    IF m.sender = MasterId
    THEN TRUE
    ELSE IF m.chat \notin DOMAIN store \/ ~store[m.chat].active
         THEN FALSE
         ELSE m.role \in only_roles

\* A variant that keeps an empty role set as given.
resolve_only_roles_explicit(only_roles, defaults) == only_roles

\* `only_roles or self._default_only_roles`
resolve_only_roles(only_roles, defaults) ==
    IF only_roles = {} THEN defaults ELSE only_roles

is_new(m, started) == m.date >= started

\* A variant with the comparison off by one.
is_short_inclusive(m) == m.len <= MaxMessageLength

is_short(m) == m.len < MaxMessageLength

\* The extra predicate of a binding: the address matcher of an ability,
\* or the caller's own predicate (here the one that accepts everything).
extra_predicate(b, m) == IF b.extra = "matcher" THEN m.addr ELSE TRUE

\* A variant that never inserts the freshness check.
make_predicate_never_new(b, m, store, started) ==
    /\ make_from_user_predicate(b.roles, m, store)
    /\ is_short(m)
    /\ extra_predicate(b, m)

\* One part of a composed predicate, applied to a message.
part(name, b, m, store, started) ==
    CASE name = "from_user" -> make_from_user_predicate(b.roles, m, store)
      [] name = "is_new" -> is_new(m, started)
      [] name = "is_short" -> is_short(m)
      [] name = "extra" -> extra_predicate(b, m)

\* A variant that appends the freshness check instead of inserting it.
predicates_fresh_last(b) ==
    <<"from_user", "is_short">> \o <<"extra">>
        \o (IF b.only_new THEN <<"is_new">> ELSE <<>>)

\* Lines 345-352 of make_predicate: the list of parts, the freshness check
\* inserted at index 1 when only_new, the extra predicates at the end.
predicates(b) ==
    LET base == <<"from_user", "is_short">>
        inserted == IF b.only_new
                    THEN <<base[1]>> \o <<"is_new">> \o Tail(base)
                    ELSE base
    IN  inserted \o <<"extra">>

\* The generator of `all(p(m) for p in predicates)`: the parts are applied
\* in list order from index k on; the index of the first part that fails, or
\* 0 when none does.
RECURSIVE first_falsy(_, _, _, _, _, _)
first_falsy(ps, k, b, m, store, started) ==
    IF k > Len(ps) THEN 0
    ELSE IF part(ps[k], b, m, store, started)
         THEN first_falsy(ps, k + 1, b, m, store, started)
         ELSE k

\* all(p(m) for p in predicates): evaluated lists the parts that were applied.
all(ps, b, m, store, started) ==
    LET stop == first_falsy(ps, 1, b, m, store, started)
    IN  [result |-> stop = 0,
         evaluated |-> IF stop = 0 THEN ps ELSE SubSeq(ps, 1, stop)]

\* The predicate make_predicate returns, applied to a message.
make_predicate(b, m, store, started) ==
    all(predicates(b), b, m, store, started).result

\* The predicate registered with the binding: composed for replies_to and
\* add_message_handler, the caller's own for add_native_message_handler.
Predicate(b, m, store, started) ==
    IF b.kind = "native"
    THEN extra_predicate(b, m)
    ELSE make_predicate(b, m, store, started)

----------------------------------------------------------------------------
(* Bot: registration (bot.py).                                             *)

\* A variant that puts the new binding in front of the older ones.
message_handler_in_front(hs, b) == <<[b EXCEPT !.reg = Len(hs) + 1]>> \o hs

\* self._bot.message_handler(func=predicate)(handler): the binding goes to
\* the end of the dispatcher's list; reg is its registration number.
message_handler(hs, b) == Append(hs, [b EXCEPT !.reg = Len(hs) + 1])

replies_to(only_roles, defaults) ==
    [kind |-> "ability", given |-> only_roles,
     roles |-> resolve_only_roles(only_roles, defaults),
     only_new |-> TRUE, extra |-> "matcher", reg |-> 0]

add_message_handler(only_roles, only_new, defaults) ==
    [kind |-> "handler", given |-> only_roles,
     roles |-> resolve_only_roles(only_roles, defaults),
     only_new |-> only_new, extra |-> "always", reg |-> 0]

add_native_message_handler ==
    [kind |-> "native", given |-> {}, roles |-> {},
     only_new |-> FALSE, extra |-> "always", reg |-> 0]

----------------------------------------------------------------------------
(* Bot: handlers (bot.py).                                                 *)

\* A variant that adds the chat of a replied message when it is unknown.
record_interaction_adding_chat(store, chat_id, uid, name) ==
    LET known == IF chat_id \in DOMAIN store THEN store ELSE add_chat(store, chat_id)
    IN  IF ~contains(known[chat_id], uid)
        THEN [known EXCEPT ![chat_id] = add_member(known[chat_id], uid, name)]
        ELSE known

\* Lines 185-186 of the ability handler: the sender of a replied message
\* becomes a member of a known chat, under the name just resolved.
record_interaction(store, chat_id, uid, name) ==
    IF chat_id \in DOMAIN store /\ ~contains(store[chat_id], uid)
    THEN [store EXCEPT ![chat_id] = add_member(store[chat_id], uid, name)]
    ELSE store

needs_member(store, chat_id, uid) ==
    chat_id \in DOMAIN store /\ ~contains(store[chat_id], uid)

\* Bot.log reads self.chats[chat_id][user_id].
log_raises(store, chat_id, uid) ==
    chat_id \notin DOMAIN store \/ ~contains(store[chat_id], uid)

\* The handler replies_to registers.  The reply function has run already:
\* store is the store it left, response tells whether its result is non-empty.
ability_handler(m, response, name, store) ==
    IF ~response
    THEN [chats |-> store, resolved |-> FALSE, replied |-> FALSE, raised |-> FALSE]
    ELSE IF needs_member(store, m.chat, m.sender) /\ ~can_add_member(store[m.chat])
         THEN [chats |-> store, resolved |-> TRUE, replied |-> FALSE, raised |-> TRUE]
         ELSE LET after == record_interaction(store, m.chat, m.sender, name)
              IN  [chats |-> after,
                   resolved |-> needs_member(store, m.chat, m.sender),
                   replied |-> TRUE,
                   raised |-> log_raises(after, m.chat, m.sender)]

\* The handler add_native_message_handler registers.
native_handler(m, response, store) ==
    [chats |-> store, resolved |-> FALSE, replied |-> response, raised |-> FALSE]

handler(b, m, response, name, store) ==
    IF b.kind = "ability"
    THEN ability_handler(m, response, name, store)
    ELSE native_handler(m, response, store)

\* The dispatcher: the bindings are tested in list order and the first whose
\* predicate accepts the message is the only one run.
FirstMatch(hs, m, store, started) ==
    LET matching == {i \in 1..Len(hs) : Predicate(hs[i], m, store, started)}
    IN  IF matching = {} THEN {}
        ELSE {CHOOSE i \in matching : \A j \in matching : i <= j}

----------------------------------------------------------------------------
(* The dispatcher's handling of one message, to completion: the outcome of *)
(* the binding that fires, or nothing.  response, eff and name are what    *)
(* the reply function returns (non-empty or not), what it does to the      *)
(* store, and what the name resolver answers if it is asked.               *)

NoOutcome(store) ==
    [chats |-> store, resolved |-> FALSE, replied |-> FALSE, raised |-> FALSE]

\* The handler of the binding that fired, if any, run on the store the
\* reply function left.
Run(fired, hs, m, response, eff, name, store) ==
    IF fired = {}
    THEN NoOutcome(store)
    ELSE handler(hs[CHOOSE i \in fired : TRUE], m, response, name,
                 ApplyEffect(store, eff))

Handle(hs, m, response, eff, name, store, started) ==
    Run(FirstMatch(hs, m, store, started), hs, m, response, eff, name, store)

----------------------------------------------------------------------------
(* Strings are sequences of one-character strings.                         *)

Capitals == {"A", "B", "N", "P"}

lower(c) ==
    CASE c = "A" -> "a"
      [] c = "B" -> "b"
      [] c = "N" -> "n"
      [] c = "P" -> "p"
      [] OTHER -> c

str_lower(s) == [i \in 1..Len(s) |-> lower(s[i])]

RECURSIVE lstrip(_, _)
lstrip(s, ch) ==
    IF s # <<>> /\ Head(s) = ch THEN lstrip(Tail(s), ch) ELSE s

RECURSIVE rstrip(_, _)
rstrip(s, ch) ==
    IF s # <<>> /\ s[Len(s)] = ch THEN rstrip(SubSeq(s, 1, Len(s) - 1), ch) ELSE s

strip(s, ch) == rstrip(lstrip(s, ch), ch)

\* _capital_pattern.sub(repl, s): every capital becomes "_" and its lower case.
RECURSIVE capital_sub(_)
capital_sub(s) ==
    IF s = <<>> THEN <<>>
    ELSE (IF Head(s) \in Capitals THEN <<"_", lower(Head(s))>> ELSE <<Head(s)>>)
            \o capital_sub(Tail(s))

pascal2snake(s) == strip(capital_sub(s), "_")

----------------------------------------------------------------------------
(* Plugin (plugin.py): the registry of plugin classes.                     *)

MaxPlugins == 2

\* The __name__ of the plugin classes of the process.
ClassNames == {<<"A">>, <<"a">>, <<"A", "B">>, <<"A", "_">>}

\* A plugin class: its __name__ and whether its finalize() raises.
Classes == [name : ClassNames, finalize_raises : BOOLEAN]

\* The names given to @plugin("...") and in the "plugins" object of the config.
PluginNames == {<<"a">>, <<"a", "_", "b">>, <<"b">>}

Registered(reg, name, cls) ==
    [n \in DOMAIN reg \cup {name} |-> IF n = name THEN cls ELSE reg[n]]

\* register_plugin applied to a class: the name is derived from __name__.
register_plugin(reg, cls) ==
    [plugins |-> Registered(reg, pascal2snake(cls.name), cls), raised |-> FALSE]

\* A variant of the decorator without the test for a name in use.
decorator_unchecked(reg, name, cls) ==
    [plugins |-> Registered(reg, name, cls), raised |-> FALSE]

\* register_plugin applied to a name: the decorator it returns, applied to a class.
decorator(reg, name, cls) ==
    IF name \in DOMAIN reg
    THEN [plugins |-> reg, raised |-> TRUE]
    ELSE [plugins |-> Registered(reg, name, cls), raised |-> FALSE]

\* config.plugins is a mapping: its names are distinct, in the order written.
Configs ==
    {names \in UNION {[1..n -> PluginNames] : n \in 0..MaxPlugins} :
        \A i, j \in 1..Len(names) : names[i] = names[j] => i = j}

\* The value _started_at has before line 58 of Bot.__init__ assigns it: none.
Unassigned == -2

\* A variant of the lookup that skips the names the registry lacks.
instantiate_known(reg, names) ==
    [instances |-> SelectSeq([i \in 1..Len(names) |->
                                 IF names[i] \in DOMAIN reg THEN reg[names[i]]
                                 ELSE [name |-> <<>>, finalize_raises |-> FALSE]],
                             LAMBDA c : c.name # <<>>),
     raised |-> FALSE]

\* Lines 54-56 of Bot.__init__: plugins[name](...) for each configured name,
\* in order; a name the registry lacks raises KeyError.
instantiate(reg, names) ==
    IF \E i \in 1..Len(names) : names[i] \notin DOMAIN reg
    THEN [instances |-> <<>>, raised |-> TRUE]
    ELSE [instances |-> [i \in 1..Len(names) |-> reg[names[i]]], raised |-> FALSE]

\* Lines 109-110 of Bot.start: finalize() of each plugin in order; the first
\* one that raises ends the loop and the exception leaves start().
finalize_loop(ps) ==
    LET raising == {i \in 1..Len(ps) : ps[i].finalize_raises}
    IN  IF raising = {}
        THEN [invoked |-> ps, raised |-> FALSE]
        ELSE [invoked |-> SubSeq(ps, 1, CHOOSE i \in raising : \A j \in raising : i <= j),
              raised |-> TRUE]

\* Lines 105-110 of Bot.start, after infinity_polling returned: the calls
\* start() makes, in the order it makes them.
shutdown(store, ps) ==
    <<[call |-> "save", arg |-> DumpChats(store)]>>
      \o [i \in 1..Len(finalize_loop(ps).invoked) |->
            [call |-> "finalize", arg |-> finalize_loop(ps).invoked[i]]]

\* A worker thread that runs no handler.
Idle == [pc |-> "idle", chat |-> 0, sender |-> 0]

\* No static helper has been applied.
NoCall == [op |-> "none"]

----------------------------------------------------------------------------
(* The state machine.                                                      *)

Unsaved == [written |-> FALSE, value |-> <<>>]

\* The serialized chats asset the constructor may find.
InitRecords ==
    {[has_active |-> TRUE, active |-> TRUE, has_members |-> TRUE, members |-> EmptyDict],
     [has_active |-> TRUE, active |-> FALSE, has_members |-> TRUE,
      members |-> Dict([u \in {2} |-> "n1"])],
     [has_active |-> FALSE, active |-> FALSE, has_members |-> FALSE, members |-> EmptyDict]}

InitAssets == UNION {[d -> InitRecords] : d \in SUBSET ChatIds}

Init ==
    /\ phase = "booted"
    /\ started_at = -1
    /\ default_only_roles \in DefaultRoleSets
    /\ handlers = <<>>
    /\ chats \in {LoadChats(raw) : raw \in InitAssets}
    /\ saved = Unsaved
    /\ Plugin_plugins = <<>>
    /\ config_plugins = <<>>
    /\ plugins = <<>>
    /\ finalized = <<>>
    /\ error = "none"
    /\ workers = <<>>
    /\ call = NoCall

RepliesTo ==
    /\ phase = "booted"
    /\ Len(handlers) < MaxHandlers
    /\ \E only_roles \in RoleSets :
         handlers' = message_handler(handlers, replies_to(only_roles, default_only_roles))
    /\ UNCHANGED <<phase, started_at, default_only_roles, chats, saved>>
    /\ UNCHANGED <<plugin_vars, workers, call>>

AddMessageHandler ==
    /\ phase = "booted"
    /\ Len(handlers) < MaxHandlers
    /\ \E only_roles \in RoleSets, only_new \in BOOLEAN :
         handlers' = message_handler(handlers,
                        add_message_handler(only_roles, only_new, default_only_roles))
    /\ UNCHANGED <<phase, started_at, default_only_roles, chats, saved>>
    /\ UNCHANGED <<plugin_vars, workers, call>>

AddNativeMessageHandler ==
    /\ phase = "booted"
    /\ Len(handlers) < MaxHandlers
    /\ handlers' = message_handler(handlers, add_native_message_handler)
    /\ UNCHANGED <<phase, started_at, default_only_roles, chats, saved>>
    /\ UNCHANGED <<plugin_vars, workers, call>>

\* A store operation called before polling starts.
StoreOp ==
    /\ phase = "booted"
    /\ \E eff \in Effects \ {NoEffect} :
         /\ EffectAllowed(chats, eff)
         /\ chats' = ApplyEffect(chats, eff)
    /\ UNCHANGED <<phase, started_at, default_only_roles, handlers, saved>>
    /\ UNCHANGED <<plugin_vars, workers, call>>

Start ==
    /\ phase = "booted"
    /\ phase' = "polling"
    /\ started_at' \in StartTimes
    /\ UNCHANGED <<default_only_roles, handlers, chats, saved>>
    /\ UNCHANGED <<plugin_vars, workers, call>>

\* One inbound message, handled to completion.
Dispatch ==
    /\ phase = "polling"
    /\ \E m \in Messages :
         LET fired == FirstMatch(handlers, m, chats, started_at)
         IN  IF fired = {}
             THEN chats' = chats
             ELSE \E response \in BOOLEAN, eff \in Effects, name \in Names :
                    /\ EffectAllowed(chats, eff)
                    /\ chats' = Run(fired, handlers, m, response, eff, name, chats).chats
    /\ UNCHANGED <<phase, started_at, default_only_roles, handlers, saved>>
    /\ UNCHANGED <<plugin_vars, workers, call>>

\* infinity_polling returns; start() writes the chats asset and then
\* finalizes the plugins.
Stop ==
    /\ phase = "polling"
    /\ \A w \in DOMAIN workers : workers[w] = Idle
    /\ phase' = "stopped"
    /\ LET made == shutdown(chats, plugins)
           writes == SelectSeq(made, LAMBDA c : c.call = "save")
           hooks == SelectSeq(made, LAMBDA c : c.call = "finalize")
       IN  /\ saved' = IF writes = <<>> THEN saved
                        ELSE [written |-> TRUE, value |-> writes[Len(writes)].arg]
           /\ finalized' = [i \in 1..Len(hooks) |-> hooks[i].arg]
    /\ error' = IF finalize_loop(plugins).raised THEN "finalize" ELSE "none"
    /\ UNCHANGED <<started_at, default_only_roles, handlers, chats>>
    /\ UNCHANGED <<Plugin_plugins, config_plugins, plugins, workers, call>>

Next ==
    \/ RepliesTo
    \/ AddMessageHandler
    \/ AddNativeMessageHandler
    \/ StoreOp
    \/ Start
    \/ Dispatch
    \/ Stop

Spec == Init /\ [][Next]_vars

----------------------------------------------------------------------------
(* The life cycle with plugins: the plugin modules are imported and        *)
(* register their classes, the Bot is constructed, started and stopped.    *)

InitPlugins ==
    /\ phase = "init"
    /\ started_at = Unassigned
    /\ default_only_roles = {}
    /\ handlers = <<>>
    /\ chats = <<>>
    /\ saved = Unsaved
    /\ Plugin_plugins = <<>>
    /\ config_plugins \in Configs
    /\ plugins = <<>>
    /\ finalized = <<>>
    /\ error = "none"
    /\ workers = <<>>
    /\ call = NoCall

\* @plugin on a class.
RegisterPlugin ==
    /\ phase = "init"
    /\ \E cls \in Classes :
         /\ Plugin_plugins' = register_plugin(Plugin_plugins, cls).plugins
         /\ error' = "none"
    /\ UNCHANGED <<core_vars, config_plugins, plugins, finalized, workers, call>>

\* @plugin("name") on a class.
RegisterPluginAs ==
    /\ phase = "init"
    /\ \E name \in PluginNames, cls \in Classes :
         LET done == decorator(Plugin_plugins, name, cls)
         IN  /\ Plugin_plugins' = done.plugins
             /\ error' = IF done.raised THEN "ValueError" ELSE "none"
    /\ UNCHANGED <<core_vars, config_plugins, plugins, finalized, workers, call>>

\* Bot(assets): the chats are loaded, the configured plugins instantiated
\* and _started_at set; a KeyError of the plugin lookup leaves the constructor.
Construct ==
    /\ phase = "init"
    /\ LET made == instantiate(Plugin_plugins, config_plugins)
       IN  IF made.raised
           THEN /\ phase' = "failed"
                /\ error' = "KeyError"
                /\ UNCHANGED <<started_at, chats, plugins>>
           ELSE /\ phase' = "booted"
                /\ error' = "none"
                /\ started_at' = -1
                /\ chats' \in {LoadChats(raw) : raw \in InitAssets}
                /\ plugins' = made.instances
    /\ UNCHANGED <<default_only_roles, handlers, saved>>
    /\ UNCHANGED <<Plugin_plugins, config_plugins, finalized, workers, call>>

NextPlugins ==
    \/ RegisterPlugin
    \/ RegisterPluginAs
    \/ Construct
    \/ Start
    \/ Stop

SpecPlugins == InitPlugins /\ [][NextPlugins]_vars

----------------------------------------------------------------------------
(* The handlers on TeleBot's worker threads.  Bot.__init__ constructs      *)
(* TeleBot(config.api_token) with the library's defaults, threaded with    *)
(* two worker threads: the handler of a message runs on a free worker      *)
(* while the handler of another message may be running on the other.       *)

NumThreads == 2

\* The bindings replies_to registered that fire on m.
FiresAbility(m) ==
    \E i \in FirstMatch(handlers, m, chats, started_at) : handlers[i].kind = "ability"


Workers == 1..NumThreads

InitThreaded ==
    /\ phase = "booted"
    /\ started_at = -1
    /\ default_only_roles \in DefaultRoleSets
    /\ handlers = <<>>
    /\ chats \in {LoadChats(raw) : raw \in InitAssets}
    /\ saved = Unsaved
    /\ Plugin_plugins = <<>>
    /\ config_plugins = <<>>
    /\ plugins = <<>>
    /\ finalized = <<>>
    /\ error = "none"
    /\ workers = [w \in Workers |-> Idle]
    /\ call = NoCall

\* Lines 179-182 of the ability handler on worker w: the predicate accepted
\* the message, the matcher and the reply function run.
Begin(w) ==
    /\ phase = "polling"
    /\ workers[w] = Idle
    /\ \E m \in Messages, response \in BOOLEAN, eff \in Effects :
         /\ FiresAbility(m)
         /\ EffectAllowed(chats, eff)
         /\ chats' = ApplyEffect(chats, eff)
         /\ workers' = [workers EXCEPT ![w] =
                           IF response
                           THEN [pc |-> "check", chat |-> m.chat, sender |-> m.sender]
                           ELSE Idle]
    /\ UNCHANGED <<phase, started_at, default_only_roles, handlers, saved>>
    /\ UNCHANGED <<plugin_vars, call>>

\* Line 185: the membership test.
Check(w) ==
    /\ workers[w].pc = "check"
    /\ workers' = [workers EXCEPT ![w].pc =
                      IF needs_member(chats, workers[w].chat, workers[w].sender)
                      THEN "add" ELSE "send"]
    /\ UNCHANGED <<core_vars, plugin_vars, call>>

\* Line 186: add_member resolves the name and stores it; it raises when the
\* chat was removed since the test or when its members are a tuple.
AddMember(w) ==
    /\ workers[w].pc = "add"
    /\ LET c == workers[w].chat
           u == workers[w].sender
       IN  IF c \notin DOMAIN chats \/ ~can_add_member(chats[c])
           THEN /\ workers' = [workers EXCEPT ![w] = Idle]
                /\ chats' = chats
           ELSE /\ \E name \in Names :
                      chats' = [chats EXCEPT ![c] = add_member(chats[c], u, name)]
                /\ workers' = [workers EXCEPT ![w].pc = "send"]
    /\ UNCHANGED <<phase, started_at, default_only_roles, handlers, saved>>
    /\ UNCHANGED <<plugin_vars, call>>

\* Lines 189-194: the reply is sent and the interaction logged.
Send(w) ==
    /\ workers[w].pc = "send"
    /\ workers' = [workers EXCEPT ![w] = Idle]
    /\ UNCHANGED <<core_vars, plugin_vars, call>>

NextThreaded ==
    \/ RepliesTo
    \/ Start
    \/ \E w \in Workers : Begin(w)
    \/ \E w \in Workers : Check(w)
    \/ \E w \in Workers : AddMember(w)
    \/ \E w \in Workers : Send(w)
    \/ Stop

SpecThreaded == InitThreaded /\ [][NextThreaded]_vars

----------------------------------------------------------------------------
(* The static helpers: sanitize_name (utils/common.py), Bot.get_name and   *)
(* the address matcher of Bot.make_address_predicate (bot.py).             *)

MaxNameLen == 3
MaxTextLen == 5

Strings(chars, n) == UNION {[1..k -> chars] : k \in 0..n}

\* The characters of a profile name: a letter, which sanitize_name keeps,
\* and a space, which it removes.
NameChars == {"a", " "}

AllowedChars == {"a", "b", "n", "p", "A", "B", "N", "P", ",", "_"}

sanitize_name(has_name, name) ==
    SelectSeq(IF has_name THEN name ELSE <<>>, LAMBDA x : x \in AllowedChars)

\* A User of the platform: the username may be absent (None).
UserRecords ==
    [has_username : BOOLEAN, username : Strings(NameChars, MaxNameLen),
     full_name : Strings(NameChars, MaxNameLen)]

Thresholds == 1..MaxNameLen

\* `(len(fn) < threshold or len(fn) <= len(un)) and fn or un`: the and/or
\* chain yields fn only if fn is non-empty.
get_name(user, full_name_threshold) ==
    LET un == sanitize_name(user.has_username, user.username)
        fn == sanitize_name(TRUE, user.full_name)
    IN  IF (Len(fn) < full_name_threshold \/ Len(fn) <= Len(un)) /\ fn # <<>>
        THEN fn
        ELSE un

\* The characters of a message text, and those \s matches.
TextChars == {"n", "N", "p", ",", " ", "\t"}

Whitespace == {" ", "\t"}

AgentNames == {<<"n">>}

Phrases == {<<"p">>, <<"p", " ", "p">>}

\* .replace(" ", "\\s+") on a piece of the pattern source.
replace_spaces(src) == [i \in 1..Len(src) |-> IF src[i] = " " THEN "\\s+" ELSE src[i]]

\* The compiled pattern: the replace applies to the whole concatenated
\* source, the separators included.
compile(name, phrase) ==
    [name |-> replace_spaces(str_lower(name)),
     separators |-> <<replace_spaces(<<",">>),
                      replace_spaces(<<" ">>),
                      replace_spaces(<<",", " ">>)>>,
     phrase |-> replace_spaces(str_lower(phrase))]

\* The length of the run of whitespace that starts after position pos.
RECURSIVE run_length(_, _)
run_length(text, pos) ==
    IF pos < Len(text) /\ text[pos + 1] \in Whitespace
    THEN 1 + run_length(text, pos + 1)
    ELSE 0

\* The positions at which a match of the pattern piece that starts at pos
\* may end, in the order the backtracking matcher tries them (\s+ is greedy).
RECURSIVE ends_from(_, _, _)
RECURSIVE ends_of_run(_, _, _, _)
ends_from(piece, text, pos) ==
    IF piece = <<>> THEN <<pos>>
    ELSE IF Head(piece) = "\\s+"
         THEN ends_of_run(Tail(piece), text, pos, run_length(text, pos))
         ELSE IF pos < Len(text) /\ text[pos + 1] = Head(piece)
              THEN ends_from(Tail(piece), text, pos + 1)
              ELSE <<>>

ends_of_run(rest, text, pos, k) ==
    IF k = 0 THEN <<>>
    ELSE ends_from(rest, text, pos + k) \o ends_of_run(rest, text, pos, k - 1)

\* The ends of the alternatives of a group, tried in the order written,
\* from each of the given starts.
RECURSIVE ends_of_any(_, _, _)
ends_of_any(pieces, text, starts) ==
    IF starts = <<>> THEN <<>>
    ELSE LET RECURSIVE each(_)
             each(ps) == IF ps = <<>> THEN <<>>
                         ELSE ends_from(Head(ps), text, Head(starts)) \o each(Tail(ps))
         IN  each(pieces) \o ends_of_any(pieces, text, Tail(starts))

\* The predicate make_address_predicate returns, applied to a text:
\* _pattern.match(text.lower()); span_end is match.span()[1].
make_address_predicate(name, phrase, text) ==
    LET pattern == compile(name, phrase)
        lowered == str_lower(text)
        named == ends_from(pattern.name, lowered, 0)
        addressed == ends_of_any(pattern.separators, lowered, named)
        whole == ends_of_any(<<pattern.phrase>>, lowered, addressed)
    IN  IF whole = <<>>
        THEN [matched |-> FALSE, span_end |-> 0]
        ELSE [matched |-> TRUE, span_end |-> Head(whole)]

\* message.text[match.span()[1]:]
remainder(text, match) == SubSeq(text, match.span_end + 1, Len(text))

\* Help (core/help.py): the headers given to the constructor, each possibly
\* absent (None), and the entries added so far.
MaxEntries == 2

Absent == [given |-> FALSE, text |-> <<>>]

Given(text) == [given |-> TRUE, text |-> text]

TopHeaders == {Absent, Given(<<>>), Given(<<"H">>)}

AbilitiesHeaders == {Absent, Given(<<>>), Given(<<"A">>)}

ExamplesHeaders == {Absent, Given(<<>>), Given(<<"E">>)}

Usages == {<<"u">>, <<"w", "x", "y", "z">>}

Descriptions == {<<>>, <<"d">>}

Examples == {<<>>, <<"e">>}

\* Help.__init__
NewHelp(header, abilities_header, examples_header) ==
    [header |-> header, abilities_header |-> abilities_header,
     examples_header |-> examples_header, abilities |-> <<>>, examples |-> <<>>]

add_ability(help, usage, description) ==
    [help EXCEPT !.abilities = Append(@, <<usage, description>>)]

add_example(help, example) ==
    [help EXCEPT !.examples = Append(@, example)]

\* The truth value of an optional string: None and "" are falsy.
truthy(section) == section.given /\ section.text # <<>>

\* An optional string inside an f-string: None is rendered as its name.
str(value) == IF value.given THEN value.text ELSE <<"N", "o", "n", "e">>

\* sep.join(items)
RECURSIVE join(_, _)
join(sep, items) ==
    IF items = <<>> THEN <<>>
    ELSE IF Len(items) = 1 THEN items[1]
         ELSE items[1] \o sep \o join(sep, Tail(items))

\* f"{usage:<{ceil(len(usage) / 8) * 8}}"
ljust(usage) ==
    LET width == ((Len(usage) + 7) \div 8) * 8
    IN  usage \o [i \in 1..(width - Len(usage)) |-> " "]

\* sorted(abilities, key=lambda p: len(p[0]) // 4): a stable sort.
RECURSIVE sorted(_)
sorted(abilities) ==
    IF abilities = <<>> THEN <<>>
    ELSE LET key(p) == Len(p[1]) \div 4
             least == CHOOSE i \in 1..Len(abilities) :
                          /\ \A j \in 1..Len(abilities) : key(abilities[i]) <= key(abilities[j])
                          /\ \A j \in 1..(i - 1) : key(abilities[j]) > key(abilities[i])
         IN  <<abilities[least]>>
                 \o sorted(SubSeq(abilities, 1, least - 1)
                               \o SubSeq(abilities, least + 1, Len(abilities)))

\* The backquote of the listings, which a string of this notation cannot hold.
Backquote == "'"

ability_line(p) ==
    <<"-", " ", Backquote>> \o ljust(p[1]) \o <<Backquote>> \o <<" ", "-", " ">> \o p[2]

example_line(e) == <<"-", " ", Backquote>> \o e \o <<Backquote>>

\* "\n".join(... for usage, description in abilities)
ability_lines(abilities) ==
    join(<<"\n">>, [i \in 1..Len(abilities) |-> ability_line(abilities[i])])

\* "\n".join(... for e in self._examples)
example_lines(examples) ==
    join(<<"\n">>, [i \in 1..Len(examples) |-> example_line(examples[i])])

\* A section that lists its entries also when there is none.
make_abilities_section_always(help) ==
    Given(str(help.abilities_header) \o <<"\n">> \o ability_lines(sorted(help.abilities)))

make_abilities_section(help) ==
    IF help.abilities = <<>>
    THEN Absent
    ELSE Given(str(help.abilities_header) \o <<"\n">>
                   \o ability_lines(sorted(help.abilities)))

make_examples_section(help) ==
    IF help.examples = <<>>
    THEN Absent
    ELSE Given(str(help.examples_header) \o <<"\n">> \o example_lines(help.examples))

make_message(help) ==
    LET sections == <<help.header, make_abilities_section(help), make_examples_section(help)>>
        kept == SelectSeq(sections, truthy)
    IN  join(<<"\n", "\n">>, [i \in 1..Len(kept) |-> kept[i].text])

\* FileAssets (core/assets/file_assets.py).  A file of the asset tree is
\* [dir, name, ext]: dir is "" for a file of base_dir itself and the name of
\* a sub-directory otherwise; a directory exists iff it holds a file.
Dirs == {"", "sub"}

Keys == {"k", "j"}

Extensions == {"json", "txt"}

Paths == [dir : Dirs, name : {"k"}, ext : Extensions]

\* What a file holds: what it was found with, nothing once it was opened
\* for writing, or what the dumper of an extension wrote for a value.
Old == [dumped_by |-> "none", value |-> "old"]

Truncated == [dumped_by |-> "none", value |-> ""]

Dumped(ext, value) == [dumped_by |-> ext, value |-> value]

Values == {"v"}

FileSystems == UNION {[d -> {Old}] : d \in SUBSET Paths}

\* _list_files: os.walk yields the files of the directories that have no
\* sub-directory, as (name, extension).
list_files(fs) ==
    LET nested == \E f \in DOMAIN fs : f.dir # ""
    IN  {f \in DOMAIN fs : nested => f.dir # ""}

\* _from_base_dir: the path is built from base_dir and the file name alone.
from_base_dir(name, ext) == [dir |-> "", name |-> name, ext |-> ext]

\* _find
find(fs, key) ==
    LET matches == {f \in list_files(fs) : f.name = key}
    IN  IF matches = {}
        THEN [raised |-> "FileNotFoundError", path |-> from_base_dir(key, ""), ext |-> ""]
        ELSE IF Cardinality(matches) > 1
             THEN [raised |-> "LookupError", path |-> from_base_dir(key, ""), ext |-> ""]
             ELSE LET m == CHOOSE f \in matches : TRUE
                  IN  [raised |-> "none", path |-> from_base_dir(m.name, m.ext), ext |-> m.ext]

\* open(path, mode='w'): the file is created or truncated.
open_w(fs, path) == [f \in DOMAIN fs \cup {path} |-> IF f = path THEN Truncated ELSE fs[f]]

\* _open(key, 'dumper'): the registry consulted is self._loaders.
open_for_dumper(fs, loaders, key) ==
    LET found == find(fs, key)
    IN  IF found.raised # "none"
        THEN [raised |-> found.raised, fs |-> fs, path |-> found.path, ext |-> found.ext]
        ELSE IF found.ext \notin loaders
             THEN [raised |-> "ValueError: No dumper available", fs |-> fs,
                   path |-> found.path, ext |-> found.ext]
             ELSE [raised |-> "none", fs |-> open_w(fs, found.path),
                   path |-> found.path, ext |-> found.ext]

\* FileAssets.set: self._dumpers[ext](file, value) on the opened file.
set(fs, loaders, dumpers, key, value) ==
    LET opened == open_for_dumper(fs, loaders, key)
    IN  IF opened.raised # "none"
        THEN [raised |-> opened.raised, fs |-> opened.fs]
        ELSE IF opened.ext \notin dumpers
             THEN [raised |-> "KeyError", fs |-> opened.fs]
             ELSE [raised |-> "none",
                   fs |-> [opened.fs EXCEPT ![opened.path] = Dumped(opened.ext, value)]]

InitHelpers ==
    /\ phase = "init"
    /\ started_at = Unassigned
    /\ default_only_roles = {}
    /\ handlers = <<>>
    /\ chats = <<>>
    /\ saved = Unsaved
    /\ Plugin_plugins = <<>>
    /\ config_plugins = <<>>
    /\ plugins = <<>>
    /\ finalized = <<>>
    /\ error = "none"
    /\ workers = <<>>
    /\ call = NoCall

GetName ==
    /\ call = NoCall
    /\ \E user \in UserRecords, threshold \in Thresholds :
         call' = [op |-> "get_name", user |-> user, threshold |-> threshold,
                  result |-> get_name(user, threshold)]
    /\ UNCHANGED <<core_vars, plugin_vars, workers>>

Match ==
    /\ call = NoCall
    /\ \E name \in AgentNames, phrase \in Phrases, text \in Strings(TextChars, MaxTextLen) :
         call' = [op |-> "match", name |-> name, phrase |-> phrase, text |-> text,
                  result |-> make_address_predicate(name, phrase, text)]
    /\ UNCHANGED <<core_vars, plugin_vars, workers>>

\* A Help is built, filled entry by entry and rendered.
CreateHelp ==
    /\ call = NoCall
    /\ \E header \in TopHeaders, abilities_header \in AbilitiesHeaders,
          examples_header \in ExamplesHeaders :
         call' = [op |-> "help", help |-> NewHelp(header, abilities_header, examples_header)]
    /\ UNCHANGED <<core_vars, plugin_vars, workers>>

AddAbility ==
    /\ call.op = "help"
    /\ Len(call.help.abilities) < MaxEntries
    /\ \E usage \in Usages, description \in Descriptions :
         call' = [call EXCEPT !.help = add_ability(@, usage, description)]
    /\ UNCHANGED <<core_vars, plugin_vars, workers>>

AddExample ==
    /\ call.op = "help"
    /\ Len(call.help.examples) < MaxEntries
    /\ \E example \in Examples :
         call' = [call EXCEPT !.help = add_example(@, example)]
    /\ UNCHANGED <<core_vars, plugin_vars, workers>>

MakeMessage ==
    /\ call.op = "help"
    /\ call' = [op |-> "make_message", help |-> call.help, result |-> make_message(call.help)]
    /\ UNCHANGED <<core_vars, plugin_vars, workers>>

\* assets.set(key, value) on a FileAssets built with loaders and dumpers.
SetAsset ==
    /\ call = NoCall
    /\ \E fs \in FileSystems, loaders \in SUBSET Extensions, dumpers \in SUBSET Extensions,
          key \in Keys, value \in Values :
         call' = [op |-> "set", fs |-> fs, loaders |-> loaders, dumpers |-> dumpers,
                  key |-> key, value |-> value,
                  result |-> set(fs, loaders, dumpers, key, value)]
    /\ UNCHANGED <<core_vars, plugin_vars, workers>>

NextHelpers ==
    \/ GetName
    \/ Match
    \/ CreateHelp
    \/ AddAbility
    \/ AddExample
    \/ MakeMessage
    \/ SetAsset

SpecHelpers == InitHelpers /\ [][NextHelpers]_vars

----------------------------------------------------------------------------
(* Properties.                                                             *)

Bindings == 1..Len(handlers)

Composed(i) == handlers[i].kind # "native"

Matching(m) == {i \in Bindings : Predicate(handlers[i], m, chats, started_at)}

Known(c) == c \in DOMAIN chats

\* What the reply function and the resolver may answer in the current state.
Replies == {r \in [response : BOOLEAN, eff : Effects, name : Names] :
                EffectAllowed(chats, r.eff)}

Outcome(m, r) == Handle(handlers, m, r.response, r.eff, r.name, chats, started_at)

\* C1: for every message at most one binding fires; the one that fires is
\* the earliest registered binding whose predicate accepts the message; when
\* no predicate accepts it nothing fires, no reply is sent and the store is
\* left alone.
C1_FirstMatchFires ==
    phase = "polling" =>
        \A m \in Messages :
            LET fired == FirstMatch(handlers, m, chats, started_at)
                matching == Matching(m)
            IN  /\ Cardinality(fired) <= 1
                /\ fired \subseteq matching
                /\ \A i \in fired : \A j \in matching :
                       handlers[i].reg <= handlers[j].reg
                /\ matching # {} => fired # {}
                /\ matching = {} =>
                       \A r \in Replies :
                           LET out == Run(fired, handlers, m, r.response, r.eff,
                                          r.name, chats)
                           IN  ~out.replied /\ out.chats = chats

\* Two bindings accept one message while polling, and the older one fires.
C1_Witness ==
    /\ phase = "polling"
    /\ \E m \in Messages :
         /\ Cardinality(Matching(m)) = 2
         /\ FirstMatch(handlers, m, chats, started_at) = {1}
    /\ \E m \in Messages : Matching(m) = {}

\* C2: the authorization predicate accepts every message of the master,
\* whatever the store holds for the message's chat and whatever the roles.
C2_MasterAlwaysAuthorized ==
    \A m \in Messages : \A only_roles \in SUBSET Roles :
        m.sender = MasterId => make_from_user_predicate(only_roles, m, chats)

\* While polling, the master addresses an ability from an unknown chat and,
\* in another run, from an inactive one: the ability fires.
C2_Witness ==
    /\ phase = "polling"
    /\ \E m \in Messages :
         /\ m.sender = MasterId
         /\ ~Known(m.chat) \/ ~chats[m.chat].active
         /\ \E i \in FirstMatch(handlers, m, chats, started_at) :
                handlers[i].kind = "ability" /\ handlers[i].roles = {}

\* C3: for any other sender the authorization predicate accepts the message
\* iff its chat is known, active and the sender's role is an allowed one.
C3_OthersByChatAndRole ==
    \A m \in Messages : \A only_roles \in SUBSET Roles :
        m.sender # MasterId =>
            (make_from_user_predicate(only_roles, m, chats)
                <=> /\ Known(m.chat)
                    /\ chats[m.chat].active
                    /\ m.role \in only_roles)

\* While polling, a composed binding fires for a sender who is not the master.
C3_Witness ==
    /\ phase = "polling"
    /\ \E m \in Messages :
         /\ m.sender # MasterId
         /\ \E i \in FirstMatch(handlers, m, chats, started_at) : Composed(i)

\* C4 as stated: a binding registered with an empty role set denies every
\* sender other than the master, whatever the default roles.
C4_EmptyRolesDenyAll ==
    phase = "polling" =>
        \A i \in Bindings : \A m \in Messages :
            (Composed(i) /\ handlers[i].given = {} /\ m.sender # MasterId)
                => ~Predicate(handlers[i], m, chats, started_at)

\* C4 amended: an empty role set is not told apart from no role set; the
\* default roles stand in for it, and roles given non-empty are used as given.
C4_EmptyRolesMeanDefault ==
    \A i \in Bindings : \A m \in Messages :
        (Composed(i) /\ m.sender # MasterId) =>
            LET allowed == IF handlers[i].given = {}
                           THEN default_only_roles
                           ELSE handlers[i].given
            IN  Predicate(handlers[i], m, chats, started_at)
                    <=> /\ Known(m.chat)
                        /\ chats[m.chat].active
                        /\ m.role \in allowed
                        /\ handlers[i].only_new => is_new(m, started_at)
                        /\ is_short(m)
                        /\ extra_predicate(handlers[i], m)

\* A binding registered with an empty role set accepts a message of a sender
\* who holds a default role.
C4_Witness ==
    /\ phase = "polling"
    /\ \E i \in Bindings : \E m \in Messages :
         /\ Composed(i)
         /\ handlers[i].given = {}
         /\ m.sender # MasterId
         /\ m.role \in default_only_roles
         /\ Predicate(handlers[i], m, chats, started_at)

\* C5: once started, a message dated before the start never fires a binding
\* composed with only_new, whoever sent it; a binding composed without
\* only_new accepts a message iff the other parts of its predicate do.
C5_OnlyNewRejectsOld ==
    phase # "booted" =>
        \A m \in Messages :
            /\ \A i \in FirstMatch(handlers, m, chats, started_at) :
                   (Composed(i) /\ handlers[i].only_new) => m.date >= started_at
            /\ \A i \in Bindings :
                   /\ (Composed(i) /\ handlers[i].only_new /\ m.date < started_at)
                          => ~Predicate(handlers[i], m, chats, started_at)
                   /\ (Composed(i) /\ ~handlers[i].only_new)
                          => (Predicate(handlers[i], m, chats, started_at)
                                <=> /\ make_from_user_predicate(handlers[i].roles, m, chats)
                                    /\ is_short(m)
                                    /\ extra_predicate(handlers[i], m))

\* While polling, one message dated before the start is refused by a binding
\* with only_new and fires a binding without it.
C5_Witness ==
    /\ phase = "polling"
    /\ \E m \in Messages :
         /\ m.date < started_at
         /\ \E i \in Bindings :
                Composed(i) /\ handlers[i].only_new /\ handlers[i].extra = "always"
         /\ \E i \in FirstMatch(handlers, m, chats, started_at) :
                Composed(i) /\ ~handlers[i].only_new

\* C6: a composed predicate refuses every message whose length is at least
\* the maximum, whoever sent it and whatever only_new is; on a message one
\* shorter than the maximum it decides as its other parts do.
C6_LongMessagesRejected ==
    \A i \in Bindings : \A m \in Messages :
        Composed(i) =>
            /\ m.len >= MaxMessageLength => ~Predicate(handlers[i], m, chats, started_at)
            /\ m.len = MaxMessageLength - 1 =>
                   (Predicate(handlers[i], m, chats, started_at)
                        <=> /\ make_from_user_predicate(handlers[i].roles, m, chats)
                            /\ handlers[i].only_new => is_new(m, started_at)
                            /\ extra_predicate(handlers[i], m))

\* While polling, the master's message of exactly the maximum length is
\* refused by a composed binding that fires on the same message one shorter.
C6_Witness ==
    /\ phase = "polling"
    /\ \E i \in Bindings : \E m \in Messages :
         /\ Composed(i)
         /\ m.sender = MasterId
         /\ m.len = MaxMessageLength - 1
         /\ FirstMatch(handlers, m, chats, started_at) = {i}
         /\ ~Predicate(handlers[i], [m EXCEPT !.len = MaxMessageLength], chats, started_at)

Members(store, c) == store[c].members.items

\* C7: as long as a chat is not removed its member map only grows: a step
\* that keeps the chat known keeps every member, under the same name.
C7_MembersOnlyGrow ==
    [][\A c \in DOMAIN chats \cap DOMAIN chats' :
          \A u \in DOMAIN Members(chats, c) :
              /\ u \in DOMAIN Members(chats', c)
              /\ Members(chats', c)[u] = Members(chats, c)[u]]_vars

\* The part of C7 that holds: activate and deactivate leave the member map alone.
C7_TogglingKeepsMembers ==
    \A c \in DOMAIN chats :
        /\ activate(chats[c]).members = chats[c].members
        /\ deactivate(chats[c]).members = chats[c].members

\* C8: when an ability handles a message of a sender who is a member of the
\* message's chat, the name resolver is not asked and the stored name stays.
C8_NameResolvedOnce ==
    phase = "polling" =>
        \A m \in Messages : \A r \in Replies :
            (Known(m.chat) /\ contains(chats[m.chat], m.sender) /\ FiresAbility(m)) =>
                LET out == Outcome(m, r)
                IN  /\ ~out.resolved
                    /\ m.chat \in DOMAIN out.chats =>
                          /\ contains(out.chats[m.chat], m.sender)
                          /\ Members(out.chats, m.chat)[m.sender]
                                = Members(chats, m.chat)[m.sender]

\* C8 holds of every handling whose reply function does not call add_chat
\* on the message's chat: only the replacement add_chat makes breaks it.
C8_NameResolvedOnceUnlessReAdded ==
    phase = "polling" =>
        \A m \in Messages : \A r \in Replies :
            (/\ Known(m.chat)
             /\ contains(chats[m.chat], m.sender)
             /\ FiresAbility(m)
             /\ r.eff # [op |-> "add_chat", chat |-> m.chat]) =>
                LET out == Outcome(m, r)
                IN  /\ ~out.resolved
                    /\ m.chat \in DOMAIN out.chats =>
                          /\ contains(out.chats[m.chat], m.sender)
                          /\ Members(out.chats, m.chat)[m.sender]
                                = Members(chats, m.chat)[m.sender]

\* C9 as stated: after an ability replied to a message from an unknown chat,
\* the chat is known.
C9_ReplyCreatesChat ==
    phase = "polling" =>
        \A m \in Messages : \A r \in Replies :
            (~Known(m.chat) /\ FiresAbility(m) /\ Outcome(m, r).replied)
                => m.chat \in DOMAIN Outcome(m, r).chats

\* C9 amended: the handler creates no chat; after an ability replied to a
\* message from an unknown chat, the chat is known iff the reply function
\* itself called add_chat on it.
C9_OnlyAddChatCreatesChat ==
    phase = "polling" =>
        \A m \in Messages : \A r \in Replies :
            (~Known(m.chat) /\ FiresAbility(m) /\ r.response) =>
                (m.chat \in DOMAIN Outcome(m, r).chats
                    <=> r.eff = [op |-> "add_chat", chat |-> m.chat])

\* While polling an ability replies to the master in an unknown chat, and
\* the chat is still unknown afterwards.
C9_Witness ==
    /\ phase = "polling"
    /\ \E m \in Messages : \E r \in Replies :
         /\ ~Known(m.chat)
         /\ FiresAbility(m)
         /\ Outcome(m, r).replied
         /\ m.chat \notin DOMAIN Outcome(m, r).chats

\* C10: loading what to_dict dumps gives back the store: the same chat ids
\* and for each the same active flag and the same member map; so does
\* loading what start() saved at shutdown.
C10_RoundTrip ==
    LET SameStore(back) ==
            /\ DOMAIN back = DOMAIN chats
            /\ \A c \in DOMAIN chats :
                   /\ back[c].active = chats[c].active
                   /\ Members(back, c) = Members(chats, c)
    IN  /\ SameStore(LoadChats(DumpChats(chats)))
        /\ saved.written => SameStore(LoadChats(saved.value))

\* Polling returned and an active chat with two members was saved.
C10_Witness ==
    /\ phase = "stopped"
    /\ saved.written
    /\ \E c \in DOMAIN chats :
         /\ chats[c].active
         /\ DOMAIN Members(chats, c) = Users
         /\ c \in DOMAIN saved.value

\* C11 as stated: a chat loaded from a record without `active` is inactive,
\* and one loaded from a record without `members` has an empty member map
\* that takes a new member: when an ability replies to a sender who is not
\* yet a member of such a chat, the handler does not fail, the reply is sent
\* and the sender is a member afterwards under the resolved name.
C11_MissingMembersTakeMembers ==
    /\ \A data \in RawRecords : ~data.has_active => ~from_dict(data).active
    /\ phase = "polling" =>
         \A m \in Messages : \A r \in Replies :
             (/\ Known(m.chat)
              /\ \E data \in RawRecords :
                    ~data.has_members /\ chats[m.chat].members = from_dict(data).members
              /\ FiresAbility(m)
              /\ r.response
              /\ r.eff = NoEffect) =>
                 LET out == Outcome(m, r)
                 IN  /\ ~out.raised
                     /\ out.replied
                     /\ contains(out.chats[m.chat], m.sender)
                     /\ Members(out.chats, m.chat)[m.sender] = r.name

\* The part of C11 that holds: a record without `active` loads as an inactive
\* chat and a record without `members` loads with no member.
C11_DefaultsOnLoad ==
    \A data \in RawRecords :
        /\ ~data.has_active => ~from_dict(data).active
        /\ ~data.has_members => DOMAIN from_dict(data).members.items = {}

\* C12 as stated: the handling of a message runs to completion before the
\* handling of the next begins, so no two handler executions are at once
\* between their membership test and their add_member on the same chat.
C12_HandlingSerialized ==
    \A v, w \in DOMAIN workers :
        (/\ v # w
         /\ workers[v].pc = "add"
         /\ workers[w].pc = "add") => workers[v].chat # workers[w].chat

\* C13 as stated: at shutdown the finalize hook of every instantiated plugin
\* is invoked, also when the hook of another plugin raises, and a hook that
\* raised is reported.
C13_FinalizeIsolated ==
    phase = "stopped" =>
        /\ finalized = plugins
        /\ (\E i \in 1..Len(plugins) : plugins[i].finalize_raises) => error = "finalize"

\* What holds instead of C13: the hooks are invoked in order up to the first
\* one that raises, and its exception leaves start().
C13_FinalizeUntilFirstFailure ==
    phase = "stopped" =>
        /\ \E k \in 0..Len(plugins) :
             /\ finalized = SubSeq(plugins, 1, k)
             /\ \A i \in 1..(k - 1) : ~plugins[i].finalize_raises
             /\ IF k > 0 /\ plugins[k].finalize_raises
                THEN error = "finalize"
                ELSE k = Len(plugins) /\ error = "none"

\* C14: when the configuration names a plugin the registry lacks, the
\* constructor fails with the lookup's KeyError, nothing is instantiated, the
\* start timestamp is never assigned and neither start nor a dispatch can
\* follow; a constructed Bot has every configured name in the registry.
C14_UnknownPluginFailsBoot ==
    LET unknown == \E i \in 1..Len(config_plugins) :
                       config_plugins[i] \notin DOMAIN Plugin_plugins
    IN  /\ phase = "failed" =>
              /\ unknown
              /\ error = "KeyError"
              /\ started_at = Unassigned
              /\ plugins = <<>>
              /\ ~ENABLED Start
              /\ ~ENABLED Dispatch
              /\ ~ENABLED Construct
        /\ phase \in {"booted", "polling", "stopped"} =>
              /\ ~unknown
              /\ Len(plugins) = Len(config_plugins)

\* A construction failed on the second configured name, the first being registered.
C14_Witness ==
    /\ phase = "failed"
    /\ Len(config_plugins) = 2
    /\ config_plugins[1] \in DOMAIN Plugin_plugins
    /\ config_plugins[2] \notin DOMAIN Plugin_plugins

\* C15: the decorator of an explicit name that is in the registry raises
\* and leaves the registry as it is; a name that is not in it is registered
\* for the decorated class.
C15_DuplicateNameRaises ==
    /\ \A name \in PluginNames : \A cls \in Classes :
         LET done == decorator(Plugin_plugins, name, cls)
         IN  IF name \in DOMAIN Plugin_plugins
             THEN done.raised /\ done.plugins = Plugin_plugins
             ELSE /\ ~done.raised
                  /\ done.plugins[name] = cls
                  /\ \A n \in DOMAIN Plugin_plugins : done.plugins[n] = Plugin_plugins[n]
    /\ error = "ValueError" => Plugin_plugins # <<>>

\* A registration under an explicit name was just rejected.
C15_Witness ==
    /\ phase = "init"
    /\ error = "ValueError"
    /\ \E name \in DOMAIN Plugin_plugins : name \in PluginNames

\* C16 as stated: no registration replaces an entry of the registry: every
\* name keeps the class that was registered for it first.
C16_RegistryNeverReplaces ==
    [][\A n \in DOMAIN Plugin_plugins :
          /\ n \in DOMAIN Plugin_plugins'
          /\ Plugin_plugins'[n] = Plugin_plugins[n]]_vars

\* C17 as stated: get_name returns the sanitized full name when it is shorter
\* than the threshold or not longer than the sanitized handle, and the
\* sanitized handle otherwise, for every handle and full name.
C17_GetNameRule ==
    call.op = "get_name" =>
        LET un == sanitize_name(call.user.has_username, call.user.username)
            fn == sanitize_name(TRUE, call.user.full_name)
        IN  call.result = IF Len(fn) < call.threshold \/ Len(fn) <= Len(un)
                          THEN fn
                          ELSE un

\* What holds instead of C17: the rule decides whenever the sanitized full
\* name is not empty; an empty one gives way to the sanitized handle.
C17_GetNameRuleUnlessEmpty ==
    call.op = "get_name" =>
        LET un == sanitize_name(call.user.has_username, call.user.username)
            fn == sanitize_name(TRUE, call.user.full_name)
        IN  call.result = IF fn = <<>> THEN un
                          ELSE IF Len(fn) < call.threshold \/ Len(fn) <= Len(un)
                               THEN fn
                               ELSE un

\* The texts a phrase stands for when each of its spaces stands for one or
\* more whitespace characters, up to n characters long.
RECURSIVE PhraseTexts(_, _)
PhraseTexts(phrase, n) ==
    IF phrase = <<>> THEN {<<>>}
    ELSE LET heads == IF Head(phrase) = " "
                      THEN Strings(Whitespace, n) \ {<<>>}
                      ELSE {<<Head(phrase)>>}
         IN  {h \o t : h \in heads, t \in PhraseTexts(Tail(phrase), n)}

IsPrefix(p, t) == Len(p) <= Len(t) /\ SubSeq(t, 1, Len(p)) = p

\* The longest run of whitespace a match of the text can hold.
Room(name, text) == IF Len(text) > Len(name) THEN Len(text) - Len(name) - 1 ELSE 0

\* C18 as stated: the matcher accepts a text iff, case aside, the text starts
\* with the agent name, then exactly one of "," " " ", ", then the phrase with
\* each space standing for one or more whitespace characters; the remainder
\* is the text after the matched phrase.
C18_MatcherAcceptsAddress ==
    call.op = "match" =>
        LET lowered == str_lower(call.text)
            addressed == {str_lower(call.name) \o sep \o body :
                             sep \in {<<",">>, <<" ">>, <<",", " ">>},
                             body \in PhraseTexts(str_lower(call.phrase), Room(call.name, call.text))}
        IN  /\ call.result.matched <=> \E a \in addressed : IsPrefix(a, lowered)
            /\ call.result.matched =>
                  \E a \in addressed :
                      /\ IsPrefix(a, lowered)
                      /\ remainder(call.text, call.result) =
                            SubSeq(call.text, Len(a) + 1, Len(call.text))

\* What holds instead of C18: the separator is a comma, a run of one or more
\* whitespace characters, or a comma and such a run.
C18_MatcherAcceptsAnyWhitespace ==
    call.op = "match" =>
        LET lowered == str_lower(call.text)
            runs == Strings(Whitespace, Room(call.name, call.text)) \ {<<>>}
            addressed == {str_lower(call.name) \o sep \o body :
                             sep \in {<<",">>} \cup runs \cup {<<",">> \o r : r \in runs},
                             body \in PhraseTexts(str_lower(call.phrase), Room(call.name, call.text))}
        IN  /\ call.result.matched <=> \E a \in addressed : IsPrefix(a, lowered)
            /\ call.result.matched =>
                  \E a \in addressed :
                      /\ IsPrefix(a, lowered)
                      /\ remainder(call.text, call.result) =
                            SubSeq(call.text, Len(a) + 1, Len(call.text))

\* C19: a composed predicate applies its parts in the order authorization,
\* freshness (only with only_new), length, extra predicate, and stops at the
\* first part that fails: it accepts iff every part holds, the parts applied
\* are a prefix of that order, all but the last applied hold, and the extra
\* predicate (the address matcher of an ability) is applied only to a
\* message that passed authorization, freshness and length.
C19_PartsInOrderShortCircuit ==
    \A i \in Bindings : \A m \in Messages :
        Composed(i) =>
            LET b == handlers[i]
                run == all(predicates(b), b, m, chats, started_at)
                order == <<"from_user">>
                            \o (IF b.only_new THEN <<"is_new">> ELSE <<>>)
                            \o <<"is_short", "extra">>
                n == Len(run.evaluated)
                authorized == make_from_user_predicate(b.roles, m, chats)
                fresh == b.only_new => is_new(m, started_at)
            IN  /\ Predicate(b, m, chats, started_at) = run.result
                /\ run.result <=> (authorized /\ fresh /\ is_short(m) /\ extra_predicate(b, m))
                /\ n >= 1 /\ n <= Len(order)
                /\ run.evaluated = SubSeq(order, 1, n)
                /\ \A k \in 1..(n - 1) : part(order[k], b, m, chats, started_at)
                /\ run.result <=> (n = Len(order) /\ part(order[n], b, m, chats, started_at))
                /\ (\E k \in 1..n : run.evaluated[k] = "extra")
                       => (authorized /\ fresh /\ is_short(m))

\* While polling an ability with only_new stops at the authorization of one
\* addressed message, at the freshness of another, at the length of a third,
\* and applies all four parts to a fourth.
C19_Witness ==
    /\ phase = "polling"
    /\ \E i \in Bindings :
         /\ handlers[i].kind = "ability"
         /\ \A n \in 1..4 : \E m \in Messages :
              /\ m.addr
              /\ Len(all(predicates(handlers[i]), handlers[i], m, chats,
                         started_at).evaluated) = n
              /\ n < 4 => ~Predicate(handlers[i], m, chats, started_at)

\* C20 as stated: when an ability's handler runs, a reply is sent iff the
\* reply function returned a non-empty result; with a non-empty result, a
\* sender who is not yet a member of the known chat is a member afterwards
\* under the resolved name; with an empty result nothing is sent and the
\* handler leaves the store as the reply function left it.
C20_ReplyAndMemberIffResponse ==
    phase = "polling" =>
        \A m \in Messages : \A r \in Replies :
            FiresAbility(m) =>
                LET store == ApplyEffect(chats, r.eff)
                    out == Outcome(m, r)
                    new == m.chat \in DOMAIN store /\ ~contains(store[m.chat], m.sender)
                IN  /\ out.replied <=> r.response
                    /\ (r.response /\ new) =>
                          /\ out.resolved
                          /\ contains(out.chats[m.chat], m.sender)
                          /\ Members(out.chats, m.chat)[m.sender] = r.name
                    /\ ~(r.response /\ new) => out.chats = store /\ ~out.resolved

\* C20 holds of every handling in which the chat of the message does not
\* hold the tuple that from_dict supplies for a record without members.
C20_ReplyAndMemberIffResponseOnDicts ==
    phase = "polling" =>
        \A m \in Messages : \A r \in Replies :
            LET store == ApplyEffect(chats, r.eff)
            IN  (/\ FiresAbility(m)
                 /\ m.chat \in DOMAIN store => can_add_member(store[m.chat])) =>
                    LET out == Outcome(m, r)
                        new == m.chat \in DOMAIN store /\ ~contains(store[m.chat], m.sender)
                    IN  /\ out.replied <=> r.response
                        /\ (r.response /\ new) =>
                              /\ out.resolved
                              /\ contains(out.chats[m.chat], m.sender)
                              /\ Members(out.chats, m.chat)[m.sender] = r.name
                        /\ ~(r.response /\ new) => out.chats = store /\ ~out.resolved

\* The text occurs somewhere in the message.
Contains(text, msg) ==
    \E k \in 0..(Len(msg) - Len(text)) : SubSeq(msg, k + 1, k + Len(text)) = text

\* C21: the rendered help holds the abilities section (header line and
\* entries) iff an ability was added, the examples section iff an example was
\* added and the top header iff it is non-empty, and nothing else but the
\* blank lines between them; with none of the three it is the empty string.
C21_EmptySectionsOmitted ==
    call.op = "make_message" =>
        LET help == call.help
            msg == call.result
            top == IF help.header.given THEN help.header.text ELSE <<>>
            abilities == IF help.abilities = <<>> THEN <<>>
                         ELSE str(help.abilities_header) \o <<"\n">>
                                  \o ability_lines(sorted(help.abilities))
            examples == IF help.examples = <<>> THEN <<>>
                        ELSE str(help.examples_header) \o <<"\n">>
                                 \o example_lines(help.examples)
            due == SelectSeq(<<top, abilities, examples>>, LAMBDA t : t # <<>>)
            blank == IF due = <<>> THEN 0 ELSE 2 * (Len(due) - 1)
        IN  /\ \A i \in 1..Len(due) : Contains(due[i], msg)
            /\ Len(msg) = Len(top) + Len(abilities) + Len(examples) + blank
            /\ due = <<>> => msg = <<>>

\* One ability was added to a Help without top header and without examples,
\* and the message is its section.
C21_Witness ==
    /\ call.op = "make_message"
    /\ ~truthy(call.help.header)
    /\ Len(call.help.abilities) = 1
    /\ call.help.examples = <<>>
    /\ call.result # <<>>
    /\ call.result = make_abilities_section(call.help).text

\* C22 as stated: every run of an ability handler on a message its predicate
\* accepted returns without raising, whatever the store; in particular a
\* non-empty reply to a message from a chat the store does not know (or that
\* the reply function removed) is sent and the handler returns normally.
C22_HandlerNeverRaises ==
    phase = "polling" =>
        \A m \in Messages :
            LET fired == FirstMatch(handlers, m, chats, started_at)
            IN  (\E i \in fired : handlers[i].kind = "ability") =>
                    \A r \in Replies :
                        LET out == Run(fired, handlers, m, r.response, r.eff, r.name, chats)
                        IN  /\ ~out.raised
                            /\ (r.response /\ m.chat \notin DOMAIN ApplyEffect(chats, r.eff))
                                   => out.replied

\* What holds instead of C22: the handler raises exactly when the result is
\* non-empty and either the chat is unknown once the reply function has
\* run, in which case the reply was sent before Bot.log raised, or the
\* sender has to be added to a member tuple, in which case nothing was sent.
C22_RaisesOnUnknownChatOrTuple ==
    phase = "polling" =>
        \A m \in Messages :
            LET fired == FirstMatch(handlers, m, chats, started_at)
            IN  (\E i \in fired : handlers[i].kind = "ability") =>
                    \A r \in Replies :
                        LET store == ApplyEffect(chats, r.eff)
                            out == Run(fired, handlers, m, r.response, r.eff, r.name, chats)
                            unknown == m.chat \notin DOMAIN store
                            tuple == /\ m.chat \in DOMAIN store
                                     /\ ~contains(store[m.chat], m.sender)
                                     /\ ~can_add_member(store[m.chat])
                        IN  /\ out.raised <=> (r.response /\ (unknown \/ tuple))
                            /\ (r.response /\ unknown) => out.replied
                            /\ (r.response /\ tuple) => ~out.replied

\* The step in which polling returns and start() shuts the bot down.
ShutsDown == phase = "polling" /\ phase' = "stopped"

\* The written record of every known chat holds its active flag and members.
Complete(value, store) ==
    /\ DOMAIN value = DOMAIN store
    /\ \A c \in DOMAIN store :
         /\ value[c].has_active /\ value[c].active = store[c].active
         /\ value[c].has_members /\ value[c].members = store[c].members

\* C23 as stated: once polling has returned, the first call of the shutdown
\* writes the complete chat map to the asset, the calls after it are one
\* finalize per instantiated plugin in instantiation order, and the asset is
\* written also when a finalize hook fails.
C23_SaveThenFinalizeEach ==
    [][ShutsDown =>
          LET made == shutdown(chats, plugins)
          IN  /\ made[1].call = "save" /\ Complete(made[1].arg, chats)
              /\ Len(made) = 1 + Len(plugins)
              /\ \A i \in 1..Len(plugins) :
                     made[i + 1] = [call |-> "finalize", arg |-> plugins[i]]
              /\ saved'.written /\ Complete(saved'.value, chats)
              /\ finalized' = plugins]_vars

\* What holds instead of C23: the complete chat map is written first and in
\* every shutdown, and the calls after it finalize the plugins in
\* instantiation order, each at most once, up to the first hook that raises.
C23_SaveThenFinalizeUntilFailure ==
    [][ShutsDown =>
          LET made == shutdown(chats, plugins)
              k == Len(made) - 1
          IN  /\ made[1].call = "save" /\ Complete(made[1].arg, chats)
              /\ k <= Len(plugins)
              /\ \A i \in 1..k : made[i + 1] = [call |-> "finalize", arg |-> plugins[i]]
              /\ \A i \in 1..(k - 1) : ~plugins[i].finalize_raises
              /\ k < Len(plugins) => plugins[k].finalize_raises
              /\ saved'.written /\ Complete(saved'.value, chats)
              /\ finalized' = SubSeq(plugins, 1, k)]_vars

\* The files of the asset tree whose name is the key.
Matches(fs, key) == {f \in DOMAIN fs : f.name = key}

\* C24 as stated: when exactly one file matches the key, set overwrites it
\* with what the dumper of its extension writes iff a dumper is registered
\* for that extension, whatever loaders are registered; without such a
\* dumper it fails with the "No dumper available" error and the file keeps
\* its content.
C24_SetNeedsOnlyDumper ==
    call.op = "set" =>
        \A f \in Matches(call.fs, call.key) :
            Matches(call.fs, call.key) = {f} =>
                IF f.ext \in call.dumpers
                THEN /\ call.result.raised = "none"
                     /\ call.result.fs[f] = Dumped(f.ext, call.value)
                ELSE /\ call.result.raised = "ValueError: No dumper available"
                     /\ call.result.fs = call.fs

\* What holds instead of C24, for a tree without sub-directories: set
\* consults the loaders.  Without a loader for the extension it fails with
\* "No dumper available" and leaves the file alone, also when a dumper is
\* registered; with a loader and a dumper it overwrites the file; with a
\* loader and no dumper the file is truncated before the KeyError.
C24_SetConsultsLoaders ==
    call.op = "set" =>
        \A f \in Matches(call.fs, call.key) :
            (Matches(call.fs, call.key) = {f} /\ \A g \in DOMAIN call.fs : g.dir = "") =>
                IF f.ext \notin call.loaders
                THEN /\ call.result.raised = "ValueError: No dumper available"
                     /\ call.result.fs = call.fs
                ELSE IF f.ext \in call.dumpers
                     THEN /\ call.result.raised = "none"
                          /\ call.result.fs = [call.fs EXCEPT ![f] = Dumped(f.ext, call.value)]
                     ELSE /\ call.result.raised = "KeyError"
                          /\ call.result.fs = [call.fs EXCEPT ![f] = Truncated]

============================================================================
